---- MODULE Spec2Model ----
(***************************************************************************)
(* go-coap: the DTLS and UDP sessions (src/dtls/session.go and the udp     *)
(* session of src/unnamed/part_000) and the pooled-message pools (tcp and  *)
(* udp message pools of src/unnamed/part_000).                             *)
(*                                                                         *)
(* Spec      the session: Run, Close, AddOnClose, SetContextValue, the     *)
(*           teardown, the parent context.                                 *)
(* FairSpec  Spec with weak fairness on the steps of the Run goroutine.    *)
(* PoolSpec  the message pool: AcquireMessage and ReleaseMessage as the    *)
(*           interleaved steps of concurrent goroutines.                   *)
(* MsgSpec   the pool used by one goroutine that also mutates and decodes  *)
(*           the messages it holds.                                        *)
(***************************************************************************)
EXTENDS Integers, Sequences, FiniteSets

(***************************************************************************)
(* Bounds of the model.                                                    *)
(***************************************************************************)
\* close-hooks registered with AddOnClose
MaxHooks == 2
\* SetContextValue calls
MaxCtxValues == 1
\* datagrams the transport delivers to Run
MaxReads == 1
\* Close() calls made by callers other than Run's deferred one
MaxCloseCalls == 2
\* SetContextValue calls made by concurrent callers
MaxSetCalls == 2
\* WriteMessage calls
MaxWrites == 2
\* message instances alive at a time
MaxInst == 2
\* message instances alive at a time where the goroutine also uses them
MaxUsed == 1

\* const maxMessagePool = 10240, scaled down to a cap the model can reach
maxMessagePool == 2

Kinds == {"dtls", "udp"}
Keys == {"k1", "k2"}
Vals == {"v1"}

VARIABLES
    kind,          \* which session type this is: "dtls" or "udp"
    closeSocket,   \* Session.closeSocket
    onClose,       \* Session.onClose: the registered hooks, in order
    ctxs,          \* every context created so far: [kind, parent, key, val]
    cancelled,     \* the cancel contexts whose Done channel is closed
    sctx,          \* Session.ctx: the context the atomic.Value holds
    doneFires,     \* how many times the done event was signalled
    connCloses,    \* how many times connection.Close() was invoked
    pc,            \* where the Run goroutine is
    readCtx,       \* the context the in-flight ReadWithContext was given
    err,           \* Run's named result err
    err1,          \* err1 of Run's deferred function
    tmp,           \* the hooks popOnClose returned that close() has yet to run
    invoked,       \* the hooks invoked so far, in order
    runRet,        \* what Run returned
    closeRet,      \* what the last Close() call returned
    \* history
    nHooks,        \* AddOnClose calls so far
    early,         \* hooks registered before popOnClose drained the list
    termErr,       \* the error that ended Run's loop
    sockErr,       \* what connection.Close() returned
    readCalls,     \* ReadWithContext calls issued
    procCalls,     \* datagrams read and handed to Process
    closeCalls,    \* Close() calls by callers other than Run
    \* the message pool
    framing,       \* which pool package this is: "udp" or "tcp"
    messagePool,   \* sync.Pool: how many times each instance is in it
    currentMessagesInPool,  \* the atomic counter
    msgs,          \* the fields of each instance
    gpc,           \* each goroutine's position in AcquireMessage/ReleaseMessage
    gv,            \* ReleaseMessage's local v
    gm,            \* the instance the goroutine's call works on
    gctx,          \* the ctx argument of the goroutine's last AcquireMessage
    held,          \* the instances each goroutine acquired and has not released
    stale,         \* the instance each goroutine released last and still points to
    \* history
    misuse,        \* some goroutine released an instance a second time
    \* calls of the message's methods
    last,          \* the call the last step made: [op, m, arg, ret, err, panic]
    \* history
    assigned,      \* the message-ID each instance was given since its acquire
    \* concurrent SetContextValue calls and Context() reads
    mutex,         \* Session.mutex: the goroutine that holds it, "" when free
    wpc,           \* each caller's position in SetContextValue
    wctx,          \* SetContextValue's local ctx
    wkv,           \* the key and value of the caller's call
    rd,            \* what the last Context() call returned
    \* history
    setCalls,      \* the <<key, value>> of the SetContextValue calls that returned
    \* WriteMessage
    wrpc,          \* the caller's position in WriteMessage
    wrm,           \* the message WriteMessage was called with
    wrCtx,         \* the context the in-flight transport write was given
    wrData,        \* the bytes the in-flight transport write was given
    wrRet,         \* what the last WriteMessage call returned
    writes,        \* the transport writes issued so far: [ctx, data]
    mcancelled     \* the message contexts that are cancelled

svars == <<kind, closeSocket, onClose, ctxs, cancelled, sctx, doneFires,
           connCloses, pc, readCtx, err, err1, tmp, invoked, runRet, closeRet,
           nHooks, early, termErr, sockErr, readCalls, procCalls,
           closeCalls>>

pvars == <<framing, messagePool, currentMessagesInPool, msgs, gpc, gv, gm,
           gctx, held, stale, misuse>>

mvars == <<last, assigned>>

cvars == <<mutex, wpc, wctx, wkv, rd, setCalls>>

wvars == <<wrpc, wrm, wrCtx, wrData, wrRet, writes, mcancelled>>

\* what a step of the session alone, or of the pool alone, leaves as it is
outsideSession == <<pvars, mvars, cvars, wvars>>
outsidePool == <<svars, mvars, cvars, wvars>>

(***************************************************************************)
(* Errors are chains of messages: <<>> is nil, <<"EREAD">> an error, and   *)
(* fmt.Errorf("...: %w", e) puts its text in front of the chain of e.      *)
(***************************************************************************)
NoErr == <<>>
EREAD == <<"EREAD">>
ECANCELED == <<"context canceled">>
EPROC == <<"EPROC">>
ECLOSE == <<"ECLOSE">>

Wrap(text, e) == <<text>> \o e

\* errors.Unwrap to the end of the chain
Cause(e) == IF e = NoErr THEN NoErr ELSE <<e[Len(e)]>>

(***************************************************************************)
(* Contexts.  ctxs[1] is the context handed to NewSession, ctxs[2] the     *)
(* session's context.WithCancel child, and in the UDP session ctxs[3] is   *)
(* doneCtx, which NewSession derives from the session context.             *)
(***************************************************************************)
ParentCtx == 1
SessionCtx == 2
DoneCtx == 3

CancelCtx(p) == [kind |-> "cancel", parent |-> p, key |-> "", val |-> ""]
ValueCtx(p, k, v) == [kind |-> "value", parent |-> p, key |-> k, val |-> v]

RECURSIVE IsAncestor(_, _, _)
\* a is c or an ancestor of c in the context tree cs
IsAncestor(cs, a, c) ==
    IF c = a THEN TRUE
    ELSE IF c = 0 THEN FALSE
    ELSE IsAncestor(cs, a, cs[c].parent)

\* cancelCtx.cancel: closes the Done channel of c and of every cancel
\* context derived from it, each at most once
Cancel(cs, done, c) ==
    done \cup {d \in 1..Len(cs) : cs[d].kind = "cancel" /\ IsAncestor(cs, c, d)}

RECURSIVE IsDone(_, _, _)
\* ctx.Done() is closed: a value context answers with its parent's channel
IsDone(cs, done, c) ==
    IF c = 0 THEN FALSE
    ELSE IF cs[c].kind = "cancel" THEN c \in done
    ELSE IsDone(cs, done, cs[c].parent)

RECURSIVE Value(_, _, _)
\* ctx.Value(k): the nearest value context carrying k, "" when none does
Value(cs, c, k) ==
    IF c = 0 THEN ""
    ELSE IF cs[c].kind = "value" /\ cs[c].key = k THEN cs[c].val
    ELSE Value(cs, cs[c].parent, k)

\* Session.Context()
Context == sctx

\* the channel Session.Done() returns is closed
DoneSignaled ==
    IF kind = "dtls" THEN doneFires > 0
    ELSE IsDone(ctxs, cancelled, DoneCtx)

\* closures of the done channel that moving from the set a of cancelled
\* contexts to the set b makes (the UDP done event is doneCtx's channel)
DoneCtxFires(a, b) ==
    IF kind = "udp" /\ DoneCtx \notin a /\ DoneCtx \in b THEN 1 ELSE 0

Count(s, h) == Cardinality({i \in 1..Len(s) : s[i] = h})

InLoop == {"loop", "read", "process"}
AfterPop == {"hooks", "sock", "signal", "ret", "returned"}

(***************************************************************************)
(* NewSession                                                              *)
(***************************************************************************)
NewSession(k, cs) ==
    /\ kind = k
    /\ closeSocket = cs
    /\ onClose = <<>>
    /\ ctxs = IF k = "udp"
              THEN <<CancelCtx(0), CancelCtx(ParentCtx), CancelCtx(SessionCtx)>>
              ELSE <<CancelCtx(0), CancelCtx(ParentCtx)>>
    /\ cancelled = {}
    /\ sctx = SessionCtx
    /\ doneFires = 0
    /\ connCloses = 0

SInit ==
    /\ \E k \in Kinds, cs \in BOOLEAN : NewSession(k, cs)
    /\ pc = "idle"
    /\ readCtx = 0
    /\ err = NoErr
    /\ err1 = NoErr
    /\ tmp = <<>>
    /\ invoked = <<>>
    /\ runRet = NoErr
    /\ closeRet = "none"
    /\ nHooks = 0
    /\ early = {}
    /\ termErr = NoErr
    /\ sockErr = NoErr
    /\ readCalls = 0
    /\ procCalls = 0
    /\ closeCalls = 0

(***************************************************************************)
(* Session.Close: s.cancel(); return nil                                   *)
(***************************************************************************)
\* a Close() that signals the done event itself
CloseBodySignalsDone ==
    /\ cancelled' = Cancel(ctxs, cancelled, SessionCtx)
    /\ doneFires' = doneFires + 1
    /\ closeRet' = "nil"
    /\ UNCHANGED <<kind, closeSocket, onClose, ctxs, sctx, connCloses, tmp,
                   invoked, nHooks, early, sockErr>>

\* a Close() that closes the connection itself
CloseBodyClosesSocket ==
    /\ cancelled' = Cancel(ctxs, cancelled, SessionCtx)
    /\ doneFires' = doneFires + DoneCtxFires(cancelled, cancelled')
    /\ closeRet' = "nil"
    /\ connCloses' = connCloses + 1
    /\ UNCHANGED <<kind, closeSocket, onClose, ctxs, sctx, tmp, invoked, nHooks,
                   early, sockErr>>

\* a Close() that runs the hooks it finds in the list
CloseBodyRunsHooks ==
    /\ cancelled' = Cancel(ctxs, cancelled, SessionCtx)
    /\ doneFires' = doneFires + DoneCtxFires(cancelled, cancelled')
    /\ closeRet' = "nil"
    /\ invoked' = invoked \o onClose
    /\ onClose' = <<>>
    /\ UNCHANGED <<kind, closeSocket, ctxs, sctx, connCloses, tmp, nHooks,
                   early, sockErr>>

CloseBody ==
    /\ cancelled' = Cancel(ctxs, cancelled, SessionCtx)
    /\ doneFires' = doneFires + DoneCtxFires(cancelled, cancelled')
    /\ closeRet' = "nil"
    /\ UNCHANGED <<kind, closeSocket, onClose, ctxs, sctx, connCloses, tmp,
                   invoked, nHooks, early, sockErr>>

\* Close() called by any goroutine other than Run
Close ==
    /\ closeCalls < MaxCloseCalls
    /\ CloseBody
    /\ closeCalls' = closeCalls + 1
    /\ UNCHANGED <<pc, readCtx, err, err1, runRet, termErr, readCalls,
                   procCalls>>

\* the context handed to NewSession is cancelled by its owner
ParentCancel ==
    /\ ParentCtx \notin cancelled
    /\ cancelled' = Cancel(ctxs, cancelled, ParentCtx)
    /\ doneFires' = doneFires + DoneCtxFires(cancelled, cancelled')
    /\ UNCHANGED <<kind, closeSocket, onClose, ctxs, sctx, connCloses, pc,
                   readCtx, err, err1, tmp, invoked, runRet, closeRet, nHooks,
                   early, termErr, sockErr, readCalls, procCalls,
                   closeCalls>>

(***************************************************************************)
(* Session.AddOnClose and Session.SetContextValue, each under s.mutex      *)
(***************************************************************************)
AddOnClose ==
    /\ nHooks < MaxHooks
    /\ nHooks' = nHooks + 1
    /\ onClose' = Append(onClose, nHooks')
    /\ early' = IF pc \in AfterPop THEN early ELSE early \cup {nHooks'}
    /\ UNCHANGED <<kind, closeSocket, ctxs, cancelled, sctx, doneFires,
                   connCloses, pc, readCtx, err, err1, tmp, invoked, runRet,
                   closeRet, termErr, sockErr, readCalls, procCalls,
                   closeCalls>>

\* a SetContextValue that derives from the context NewSession was given
SetContextValueBaseParent == ParentCtx

\* the context SetContextValue derives the new one from
SetContextValueBase == Context

SetContextValue(k, v) ==
    /\ Cardinality({c \in 1..Len(ctxs) : ctxs[c].kind = "value"}) < MaxCtxValues
    /\ ctxs' = Append(ctxs, ValueCtx(SetContextValueBase, k, v))
    /\ sctx' = Len(ctxs')
    /\ UNCHANGED <<kind, closeSocket, onClose, cancelled, doneFires, connCloses,
                   pc, readCtx, err, err1, tmp, invoked, runRet, closeRet,
                   nHooks, early, termErr, sockErr, readCalls, procCalls, closeCalls>>

(***************************************************************************)
(* Session.Run: the read loop                                              *)
(***************************************************************************)
RunStart ==
    /\ pc = "idle"
    /\ pc' = "loop"
    /\ UNCHANGED <<kind, closeSocket, onClose, ctxs, cancelled, sctx, doneFires,
                   connCloses, readCtx, err, err1, tmp, invoked, runRet,
                   closeRet, nHooks, early, termErr, sockErr, readCalls,
                   procCalls, closeCalls>>

\* s.connection.ReadWithContext(s.Context(), buf) is called and blocks
ReadCall ==
    /\ pc = "loop"
    /\ pc' = "read"
    /\ readCtx' = Context
    /\ readCalls' = readCalls + 1
    /\ UNCHANGED <<kind, closeSocket, onClose, ctxs, cancelled, sctx, doneFires,
                   connCloses, err, err1, tmp, invoked, runRet, closeRet,
                   nHooks, early, termErr, sockErr, procCalls,
                   closeCalls>>

\* the read returns a datagram and Run hands it to cc.Process
ReadData ==
    /\ pc = "read"
    /\ procCalls < MaxReads
    /\ procCalls' = procCalls + 1
    /\ pc' = "process"
    /\ UNCHANGED <<kind, closeSocket, onClose, ctxs, cancelled, sctx, doneFires,
                   connCloses, readCtx, err, err1, tmp, invoked, runRet,
                   closeRet, nHooks, early, termErr, sockErr, readCalls,
                   closeCalls>>

\* what Run returns for the read error e
ReadErrResult(e) ==
    IF kind = "dtls" THEN Wrap("cannot read from connection: ", e) ELSE e

\* Run leaves its loop with the error e of the read or of Process
LoopExit(e, result) ==
    /\ termErr' = e
    /\ err' = result
    /\ pc' = "deferClose"
    /\ UNCHANGED <<kind, closeSocket, onClose, ctxs, cancelled, sctx, doneFires,
                   connCloses, readCtx, err1, tmp, invoked, runRet, closeRet,
                   nHooks, early, sockErr, readCalls, procCalls,
                   closeCalls>>

\* the read fails on the transport
ReadError ==
    /\ pc = "read"
    /\ LoopExit(EREAD, ReadErrResult(EREAD))

\* the read returns ctx.Err() because the context it was given is done
ReadCancelled ==
    /\ pc = "read"
    /\ IsDone(ctxs, cancelled, readCtx)
    /\ LoopExit(ECANCELED, ReadErrResult(ECANCELED))

ProcessOk ==
    /\ pc = "process"
    /\ pc' = "loop"
    /\ UNCHANGED <<kind, closeSocket, onClose, ctxs, cancelled, sctx, doneFires,
                   connCloses, readCtx, err, err1, tmp, invoked, runRet,
                   closeRet, nHooks, early, termErr, sockErr, readCalls,
                   procCalls, closeCalls>>

ProcessError ==
    /\ pc = "process"
    /\ LoopExit(EPROC, EPROC)

(***************************************************************************)
(* Run's deferred function: err1 := s.Close(); err1 = s.close()            *)
(***************************************************************************)
\* a deferred function that lets a later error replace an earlier one
DeferredResultLast(e, e1) == IF e1 # NoErr THEN e1 ELSE e

\* if err == nil { err = err1 }
DeferredResult(e, e1) == IF e = NoErr THEN e1 ELSE e

DeferClose ==
    /\ pc = "deferClose"
    /\ CloseBody
    /\ err1' = NoErr
    /\ err' = DeferredResult(err, err1')
    /\ pc' = "pop"
    /\ UNCHANGED <<readCtx, runRet, termErr, readCalls, procCalls,
                   closeCalls>>

\* Session.popOnClose, under s.mutex
PopOnClose ==
    /\ pc = "pop"
    /\ tmp' = onClose
    /\ onClose' = <<>>
    /\ pc' = "hooks"
    /\ UNCHANGED <<kind, closeSocket, ctxs, cancelled, sctx, doneFires,
                   connCloses, readCtx, err, err1, invoked, runRet, closeRet,
                   nHooks, early, termErr, sockErr, readCalls, procCalls, closeCalls>>

\* a loop that runs the hooks from the last to the first
RunHookLastFirst ==
    /\ pc = "hooks"
    /\ tmp # <<>>
    /\ invoked' = Append(invoked, tmp[Len(tmp)])
    /\ tmp' = SubSeq(tmp, 1, Len(tmp) - 1)
    /\ UNCHANGED <<kind, closeSocket, onClose, ctxs, cancelled, sctx, doneFires,
                   connCloses, pc, readCtx, err, err1, runRet, closeRet, nHooks,
                   early, termErr, sockErr, readCalls, procCalls,
                   closeCalls>>

\* for _, f := range ... { f() }
RunHook ==
    /\ pc = "hooks"
    /\ tmp # <<>>
    /\ invoked' = Append(invoked, Head(tmp))
    /\ tmp' = Tail(tmp)
    /\ UNCHANGED <<kind, closeSocket, onClose, ctxs, cancelled, sctx, doneFires,
                   connCloses, pc, readCtx, err, err1, runRet, closeRet, nHooks,
                   early, termErr, sockErr, readCalls, procCalls,
                   closeCalls>>

\* a close() that ignores the owner flag
OwnsSocketAlways == TRUE

\* if s.closeSocket
OwnsSocket == closeSocket

\* if s.closeSocket { return s.connection.Close() }; return nil
CloseSocket ==
    /\ pc = "hooks"
    /\ tmp = <<>>
    /\ IF OwnsSocket
       THEN /\ connCloses' = connCloses + 1
            /\ \E e \in {NoErr, ECLOSE} : sockErr' = e /\ err1' = e
       ELSE /\ err1' = NoErr
            /\ UNCHANGED <<connCloses, sockErr>>
    /\ pc' = "signal"
    /\ UNCHANGED <<kind, closeSocket, onClose, ctxs, cancelled, sctx, doneFires,
                   readCtx, err, tmp, invoked, runRet, closeRet, nHooks, early,
                   termErr, readCalls, procCalls, closeCalls>>

\* the deferred close(s.done) of the DTLS session, s.doneCancel() of the UDP
SignalDone ==
    /\ pc = "signal"
    /\ IF kind = "dtls"
       THEN /\ doneFires' = doneFires + 1
            /\ UNCHANGED cancelled
       ELSE /\ cancelled' = Cancel(ctxs, cancelled, DoneCtx)
            /\ doneFires' = doneFires + DoneCtxFires(cancelled, cancelled')
    /\ pc' = "ret"
    /\ UNCHANGED <<kind, closeSocket, onClose, ctxs, sctx, connCloses, readCtx,
                   err, err1, tmp, invoked, runRet, closeRet, nHooks, early,
                   termErr, sockErr, readCalls, procCalls,
                   closeCalls>>

\* the deferred function ends and Run returns err
RunReturn ==
    /\ pc = "ret"
    /\ err' = DeferredResult(err, err1)
    /\ runRet' = err'
    /\ pc' = "returned"
    /\ UNCHANGED <<kind, closeSocket, onClose, ctxs, cancelled, sctx, doneFires,
                   connCloses, readCtx, err1, tmp, invoked, closeRet, nHooks,
                   early, termErr, sockErr, readCalls, procCalls,
                   closeCalls>>

\* the steps the Run goroutine takes by itself once it runs: the transport
\* returns a read whose context is done, and Process returns
RunSteps ==
    \/ ReadCall
    \/ ReadCancelled
    \/ ProcessOk
    \/ ProcessError
    \/ DeferClose
    \/ PopOnClose
    \/ RunHook
    \/ CloseSocket
    \/ SignalDone
    \/ RunReturn

SNext ==
    \/ Close
    \/ ParentCancel
    \/ AddOnClose
    \/ \E k \in Keys, v \in Vals : SetContextValue(k, v)
    \/ RunStart
    \/ ReadData
    \/ ReadError
    \/ RunSteps

vars == <<svars, pvars, mvars, cvars, wvars>>

(***************************************************************************)
(* Properties of the session                                               *)
(***************************************************************************)

\* C1: with Run executing once, any number of Close() callers and Run's own
\* exit, no hook is ever invoked twice and the done event never fires twice;
\* when Run has returned, every hook registered before popOnClose drained the
\* list was invoked exactly once and the done event fired exactly once.
C1_HooksAndDoneOnce ==
    /\ \A h \in 1..nHooks : Count(invoked, h) <= 1
    /\ doneFires <= 1
    /\ pc = "returned" =>
          /\ \A h \in early : Count(invoked, h) = 1
          /\ doneFires = 1

C1_Witness ==
    /\ pc = "returned"
    /\ closeCalls >= 2
    /\ Cardinality(early) >= 2
    /\ termErr = EREAD
    /\ doneFires = 1

\* C2: whenever Done() is signalled, teardown has run its hooks and closed
\* the socket: the done signal is the last action of teardown, never earlier.
C2_DoneOnlyAfterTeardown ==
    DoneSignaled => (pc \in {"ret", "returned"} /\ tmp = <<>>)

\* C3: once Close() was called and Run is in its loop, Run eventually returns
\* after teardown and Done() is signalled, whatever context SetContextValue
\* has put in place.
C3_CloseEndsRun ==
    (closeCalls > 0 /\ pc \in InLoop) ~> (pc = "returned" /\ DoneSignaled)

C3_Witness ==
    /\ pc = "returned"
    /\ closeCalls > 0
    /\ termErr = ECANCELED
    /\ ctxs[readCtx].kind = "value"
    /\ DoneSignaled

\* C4: a Close() call (by any caller, or the deferred one of Run) invokes no
\* hook, leaves the hook list alone, does not close the connection and
\* returns nil; hooks run and the connection is closed only by close() at
\* Run's exit.
C4_CloseOnlyCancels ==
    [][/\ (closeCalls' # closeCalls \/ (pc = "deferClose" /\ pc' = "pop")) =>
            /\ onClose' = onClose
            /\ invoked' = invoked
            /\ tmp' = tmp
            /\ connCloses' = connCloses
            /\ closeRet' = "nil"
       /\ (invoked' # invoked \/ connCloses' # connCloses) => pc = "hooks"
      ]_vars

C4_Witness ==
    /\ closeCalls > 0
    /\ closeRet = "nil"
    /\ pc = "read"
    /\ onClose # <<>>
    /\ invoked = <<>>
    /\ connCloses = 0

\* C5: connection.Close() is invoked at most once, only by the teardown of a
\* session constructed with closeSocket = true, and closeSocket never changes.
C5_SocketClosedOnceByOwner ==
    /\ [](/\ connCloses <= 1
          /\ connCloses > 0 => closeSocket /\ pc \in {"signal", "ret", "returned"}
          /\ (pc = "returned" /\ closeSocket) => connCloses = 1)
    /\ [][closeSocket' = closeSocket]_vars

C5_Witness ==
    /\ pc = "returned"
    /\ closeSocket
    /\ connCloses = 1
    /\ closeCalls >= 2

\* C6: after the first read or Process error Run issues no read and no
\* Process call, it returns only after the close sequence has completed, and
\* it returns the error that ended the loop (the DTLS session wraps a read
\* error with %w), never the error of closing the socket in its place.
C6_RunReturnsLoopError ==
    /\ [][pc \notin (InLoop \cup {"idle"}) =>
             /\ readCalls' = readCalls
             /\ procCalls' = procCalls
             /\ pc' \notin InLoop]_vars
    /\ [](pc = "returned" =>
             /\ termErr # NoErr
             /\ runRet \in {termErr, Wrap("cannot read from connection: ", termErr)}
             /\ Cause(runRet) = termErr
             /\ kind = "udp" => runRet = termErr
             /\ tmp = <<>>
             /\ DoneSignaled
             /\ closeSocket => connCloses = 1)

C6_Witness ==
    /\ pc = "returned"
    /\ termErr = EPROC
    /\ sockErr = ECLOSE
    /\ runRet = EPROC
    /\ procCalls = 1


(***************************************************************************)
(* The pooled message.  A nil pointer or interface is <<>> and a set one   *)
(* <<x>>: messageID is <<>> or <<id>>, body is <<>> or <<payload>>.  The   *)
(* embedded *pool.Message (package message/pool) holds code, token,        *)
(* options, body and its own isModified flag, here emb.                    *)
(***************************************************************************)
Framings == {"udp", "tcp"}
Goroutines == {"g1", "g2"}
MsgCtxs == {"ctxA", "ctxB"}
PoolCtxs == {"ctxA"}
NilCtx == "nil"

\* udp.Type
Confirmable == 0
NonConfirmable == 1
Acknowledgement == 2

\* codes.Empty
CodeEmpty == 0

\* pool.NewMessage()
EmbNew ==
    [code |-> CodeEmpty, token |-> <<>>, options |-> <<>>, body |-> <<>>,
     isModified |-> FALSE]

\* (*pool.Message).Reset
EmbReset(e) ==
    [code |-> CodeEmpty, token |-> <<>>, options |-> <<>>, body |-> <<>>,
     isModified |-> FALSE]

\* &Message{Message: pool.NewMessage(), rawData: ..., ctx: ctx}: messageID
\* and typ keep Go's zero values
NewMessage(c) ==
    [emb |-> EmbNew, messageID |-> <<>>, typ |-> Confirmable,
     isModified |-> FALSE, ctx |-> c]

\* a Reset that forgets the message-ID
ResetMessageIDKept(m) == m.messageID

\* the messageID Reset leaves behind
ResetMessageID(m) == <<>>

\* Message.Reset
Reset(f, m) ==
    IF f = "udp"
    THEN [m EXCEPT !.emb = EmbReset(m.emb),
                   !.messageID = ResetMessageID(m),
                   !.typ = NonConfirmable,
                   !.isModified = FALSE]
    ELSE [m EXCEPT !.emb = EmbReset(m.emb),
                   !.isModified = FALSE]

\* Message.Context
MsgContext(m) == m.ctx

\* Message.IsModified
IsModified(m) == m.isModified \/ m.emb.isModified

(***************************************************************************)
(* The wire codecs (packages udp/message and tcp/message), written from    *)
(* the wire formats: bytes are 0..255, a decoded message is a record, and  *)
(* err is NoErr or the decode error.                                       *)
(***************************************************************************)
ErrMessageTruncated == <<"message is truncated">>
ErrInvalidVersion == <<"invalid version">>
ErrInvalidTokenLen == <<"invalid token length">>
ErrOptionTruncated == <<"option is truncated">>
ErrOptionUnexpectedExtendMarker == <<"unexpected extended option marker">>

Take(s, n) == SubSeq(s, 1, n)
Drop(s, n) == SubSeq(s, n + 1, Len(s))

\* big-endian value of the bytes b
RECURSIVE BigEndian(_)
BigEndian(b) ==
    IF b = <<>> THEN 0 ELSE BigEndian(Take(b, Len(b) - 1)) * 256 + b[Len(b)]

\* bytes that extend the 4-bit field x of an option header or a length
ExtLen(x) == IF x = 13 THEN 1 ELSE IF x = 14 THEN 2 ELSE 0

\* value of the 4-bit field x extended by the bytes ext
ExtValue(x, ext) ==
    IF x = 13 THEN 13 + BigEndian(ext)
    ELSE IF x = 14 THEN 269 + BigEndian(ext)
    ELSE x

\* the option list and the payload that follow the token: options are
\* delta-encoded, 0xFF starts the payload
RECURSIVE DecodeOptions(_, _)
DecodeOptions(data, prev) ==
    IF data = <<>>
    THEN [err |-> NoErr, options |-> <<>>, payload |-> <<>>]
    ELSE IF data[1] = 255
    THEN [err |-> NoErr, options |-> <<>>, payload |-> Drop(data, 1)]
    ELSE LET delta == data[1] \div 16
             length == data[1] % 16
             dn == ExtLen(delta)
             ln == ExtLen(length)
         IN IF delta = 15 \/ length = 15
            THEN [err |-> ErrOptionUnexpectedExtendMarker, options |-> <<>>,
                  payload |-> <<>>]
            ELSE IF Len(data) < 1 + dn + ln
            THEN [err |-> ErrOptionTruncated, options |-> <<>>,
                  payload |-> <<>>]
            ELSE LET id == prev + ExtValue(delta, SubSeq(data, 2, 1 + dn))
                     vlen == ExtValue(length,
                                      SubSeq(data, 2 + dn, 1 + dn + ln))
                     body == Drop(data, 1 + dn + ln)
                 IN IF Len(body) < vlen
                    THEN [err |-> ErrOptionTruncated, options |-> <<>>,
                          payload |-> <<>>]
                    ELSE LET rest == DecodeOptions(Drop(body, vlen), id)
                         IN [rest EXCEPT !.options =
                                <<[id |-> id, value |-> Take(body, vlen)]>>
                                \o @]

DecodeError(e) ==
    [err |-> e, n |-> -1, typ |-> 0, code |-> 0, messageID |-> 0,
     token |-> <<>>, options |-> <<>>, payload |-> <<>>]

\* udp Message.Unmarshal: Ver(2) T(2) TKL(4), code, message-ID, token,
\* options, 0xFF, payload
DecodeUDP(data) ==
    IF Len(data) < 4 THEN DecodeError(ErrMessageTruncated)
    ELSE IF data[1] \div 64 # 1 THEN DecodeError(ErrInvalidVersion)
    ELSE LET tkl == data[1] % 16
             rest == Drop(data, 4)
         IN IF tkl > 8 THEN DecodeError(ErrInvalidTokenLen)
            ELSE IF Len(rest) < tkl THEN DecodeError(ErrMessageTruncated)
            ELSE LET o == DecodeOptions(Drop(rest, tkl), 0)
                 IN IF o.err # NoErr THEN DecodeError(o.err)
                    ELSE [err |-> NoErr, n |-> Len(data),
                          typ |-> (data[1] \div 16) % 4,
                          code |-> data[2],
                          messageID |-> BigEndian(SubSeq(data, 3, 4)),
                          token |-> Take(rest, tkl),
                          options |-> o.options,
                          payload |-> o.payload]

\* tcp Message.Unmarshal: Len(4) TKL(4), extended length, code, token, and
\* Len bytes of options, 0xFF and payload
DecodeTCP(data) ==
    IF Len(data) < 1 THEN DecodeError(ErrMessageTruncated)
    ELSE LET len4 == data[1] \div 16
             tkl == data[1] % 16
             en == IF len4 = 15 THEN 4 ELSE ExtLen(len4)
         IN IF tkl > 8 THEN DecodeError(ErrInvalidTokenLen)
            ELSE IF Len(data) < 1 + en + 1 + tkl
            THEN DecodeError(ErrMessageTruncated)
            ELSE LET ext == SubSeq(data, 2, 1 + en)
                     olen == IF len4 = 15 THEN 65805 + BigEndian(ext)
                             ELSE ExtValue(len4, ext)
                     rest == Drop(data, 1 + en + 1 + tkl)
                 IN IF Len(rest) < olen THEN DecodeError(ErrMessageTruncated)
                    ELSE LET o == DecodeOptions(Take(rest, olen), 0)
                         IN IF o.err # NoErr THEN DecodeError(o.err)
                            ELSE [err |-> NoErr,
                                  n |-> 1 + en + 1 + tkl + olen,
                                  typ |-> 0,
                                  code |-> data[2 + en],
                                  messageID |-> 0,
                                  token |-> SubSeq(data, 3 + en, 2 + en + tkl),
                                  options |-> o.options,
                                  payload |-> o.payload]

Decode(f, data) == IF f = "udp" THEN DecodeUDP(data) ELSE DecodeTCP(data)

(***************************************************************************)
(* Operations on a pooled message a goroutine holds                        *)
(***************************************************************************)
\* (*pool.Message).SetCode, SetToken, ResetOptionsTo, SetBody
EmbSetCode(e, c) == [e EXCEPT !.code = c, !.isModified = TRUE]
EmbSetToken(e, t) == [e EXCEPT !.token = t, !.isModified = TRUE]
EmbResetOptionsTo(e, o) == [e EXCEPT !.options = o, !.isModified = TRUE]
EmbSetBody(e, b) == [e EXCEPT !.body = b, !.isModified = TRUE]

\* Message.SetMessageID
SetMessageID(m, mid) == [m EXCEPT !.messageID = <<mid>>, !.isModified = TRUE]

\* Message.SetType
SetType(m, t) == [m EXCEPT !.typ = t, !.isModified = TRUE]

\* r.Message.SetBody(body), promoted from the embedded message
SetBody(m, b) == [m EXCEPT !.emb = EmbSetBody(@, <<b>>)]

\* an Unmarshal that stores what was decoded before it looks at the error
UnmarshalStoresFirst(f, m, data) ==
    LET d == Decode(f, data)
        e1 == EmbResetOptionsTo(
                  EmbSetToken(EmbSetCode(m.emb, d.code), d.token), d.options)
    IN IF f = "udp"
       THEN [m EXCEPT !.emb = e1, !.typ = d.typ, !.messageID = <<d.messageID>>]
       ELSE [m EXCEPT !.emb = e1]

\* Message.Unmarshal: the message after the call
Unmarshal(f, m, data) ==
    LET d == Decode(f, data)
        e1 == EmbResetOptionsTo(
                  EmbSetToken(EmbSetCode(m.emb, d.code), d.token), d.options)
        e2 == IF Len(d.payload) > 0 THEN EmbSetBody(e1, <<d.payload>>) ELSE e1
    IN IF d.err # NoErr THEN m
       ELSE IF f = "udp"
       THEN [m EXCEPT !.emb = e2, !.typ = d.typ, !.messageID = <<d.messageID>>]
       ELSE [m EXCEPT !.emb = e2]

\* the buffers the model decodes: a request with token and option, a
\* response with payload, a truncated message
UDPRequest == <<66, 1, 0, 42, 1, 2, 177, 97>>
UDPResponse == <<80, 69, 0, 7, 255, 5>>
UDPTruncated == <<66, 1, 0>>
TCPRequest == <<34, 1, 1, 2, 177, 97>>
TCPResponse == <<32, 69, 255, 5>>
TCPTruncated == <<34, 1, 1>>

Bufs(f) ==
    IF f = "udp" THEN {UDPRequest, UDPResponse, UDPTruncated}
    ELSE {TCPRequest, TCPResponse, TCPTruncated}

\* the message-ID the model's goroutine assigns
SomeMessageID == 7

\* the body the model's goroutine sets
SomeBody == <<9>>

(***************************************************************************)
(* sync.Pool and the counter                                               *)
(***************************************************************************)
Insts == 1..MaxInst

PoolSize == LET RECURSIVE Sum(_)
                Sum(n) == IF n = 0 THEN 0 ELSE messagePool[n] + Sum(n - 1)
            IN Sum(MaxInst)

\* messagePool.Put(m)
PoolPut(p, m) == [p EXCEPT ![m] = @ + 1]

\* a Get that leaves the instance in the pool
PoolGetLeaves(p, m) == p

\* the pool after messagePool.Get() returned m
PoolGet(p, m) == [p EXCEPT ![m] = @ - 1]

\* if v >= maxMessagePool { return }
AtCap(v) == v >= maxMessagePool

\* the instances something refers to: the others have been collected, and
\* the next new instance takes the place of one of them
Live ==
    {m \in Insts : \/ messagePool[m] > 0
                   \/ \E g \in Goroutines :
                          m \in held[g] \/ gm[g] = m \/ stale[g] = m}

\* the garbage collector: an instance nothing refers to is gone, and its
\* place holds no fields
Scrub(ms, live) ==
    [m \in Insts |-> IF m \in live THEN ms[m] ELSE NewMessage(NilCtx)]

PInit ==
    /\ framing \in Framings
    /\ messagePool = [m \in Insts |-> 0]
    /\ currentMessagesInPool = 0
    /\ msgs = [m \in Insts |-> NewMessage(NilCtx)]
    /\ gpc = [g \in Goroutines |-> "idle"]
    /\ gv = [g \in Goroutines |-> 0]
    /\ gm = [g \in Goroutines |-> 0]
    /\ gctx = [g \in Goroutines |-> NilCtx]
    /\ held = [g \in Goroutines |-> {}]
    /\ stale = [g \in Goroutines |-> 0]
    /\ misuse = FALSE

\* the call of goroutine g returns: its locals are gone
Returned(g) ==
    /\ gpc' = [gpc EXCEPT ![g] = "idle"]
    /\ gv' = [gv EXCEPT ![g] = 0]
    /\ gm' = [gm EXCEPT ![g] = 0]

(***************************************************************************)
(* AcquireMessage(ctx)                                                     *)
(***************************************************************************)
\* v := messagePool.Get() returns nil: a new instance is constructed
AcquireNew(g, c, max) ==
    /\ gpc[g] = "idle"
    /\ Cardinality(Live) < max
    /\ LET m == CHOOSE i \in Insts \ Live : \A j \in Insts \ Live : i <= j
       IN /\ msgs' = [msgs EXCEPT ![m] = NewMessage(c)]
          /\ held' = [held EXCEPT ![g] = @ \cup {m}]
    /\ gctx' = [gctx EXCEPT ![g] = c]
    /\ UNCHANGED <<framing, messagePool, currentMessagesInPool, gpc, gv, gm,
                   stale, misuse>>

\* v := messagePool.Get() returns the pooled instance m
AcquireGet(g, c, m) ==
    /\ gpc[g] = "idle"
    /\ messagePool[m] > 0
    /\ messagePool' = PoolGet(messagePool, m)
    /\ gpc' = [gpc EXCEPT ![g] = "acquire"]
    /\ gm' = [gm EXCEPT ![g] = m]
    /\ gctx' = [gctx EXCEPT ![g] = c]
    /\ UNCHANGED <<framing, currentMessagesInPool, msgs, gv, held,
                   stale, misuse>>

\* the ctx AcquireMessage(c) leaves in the recycled instance m
AcquiredCtx(m, c) == c

\* atomic.AddInt32(&currentMessagesInPool, -1); r.ctx = ctx; return r
AcquireReturn(g) ==
    /\ gpc[g] = "acquire"
    /\ currentMessagesInPool' = currentMessagesInPool - 1
    /\ msgs' = [msgs EXCEPT ![gm[g]].ctx = AcquiredCtx(msgs[gm[g]], gctx[g])]
    /\ held' = [held EXCEPT ![g] = @ \cup {gm[g]}]
    /\ stale' = [stale EXCEPT ![g] = IF @ = gm[g] THEN 0 ELSE @]
    /\ Returned(g)
    /\ UNCHANGED <<framing, messagePool, gctx, misuse>>

(***************************************************************************)
(* ReleaseMessage(req)                                                     *)
(***************************************************************************)
\* v := atomic.LoadInt32(&currentMessagesInPool), req being the instance m
ReleaseLoad(g, m) ==
    /\ gpc[g] = "idle"
    /\ gv' = [gv EXCEPT ![g] = currentMessagesInPool]
    /\ gm' = [gm EXCEPT ![g] = m]
    /\ gpc' = [gpc EXCEPT ![g] = "release"]
    /\ held' = [held EXCEPT ![g] = @ \ {m}]
    /\ UNCHANGED <<framing, messagePool, currentMessagesInPool, gctx>>

\* a goroutine releases an instance it holds; keep: it keeps the pointer
Release(g, m, keep) ==
    /\ m \in held[g]
    /\ ReleaseLoad(g, m)
    /\ stale' = IF keep /\ ~misuse THEN [stale EXCEPT ![g] = m] ELSE stale
    /\ msgs' = Scrub(msgs, Live')
    /\ UNCHANGED misuse

\* a goroutine releases the instance it released last a second time; the
\* model follows one such release, and forgets the kept pointers after it
ReleaseAgain(g) ==
    /\ ~misuse
    /\ stale[g] # 0
    /\ ReleaseLoad(g, stale[g])
    /\ stale' = [h \in Goroutines |-> 0]
    /\ msgs' = Scrub(msgs, Live')
    /\ misuse' = TRUE

\* if v >= maxMessagePool { return }: the instance is dropped
ReleaseDiscard(g) ==
    /\ gpc[g] = "release"
    /\ AtCap(gv[g])
    /\ Returned(g)
    /\ UNCHANGED <<framing, messagePool, currentMessagesInPool, gctx, held,
                   stale, misuse>>
    /\ msgs' = Scrub(msgs, Live')

\* atomic.AddInt32(&currentMessagesInPool, 1)
ReleaseAdd(g) ==
    /\ gpc[g] = "release"
    /\ ~AtCap(gv[g])
    /\ currentMessagesInPool' = currentMessagesInPool + 1
    /\ gpc' = [gpc EXCEPT ![g] = "added"]
    /\ UNCHANGED <<framing, messagePool, msgs, gv, gm, gctx, held,
                   stale, misuse>>

\* the ctx ReleaseMessage leaves in the instance
ReleasedCtx(m) == NilCtx

\* req.Reset(); req.ctx = nil
ReleaseReset(g) ==
    /\ gpc[g] = "added"
    /\ msgs' = [msgs EXCEPT ![gm[g]] =
                   [Reset(framing, @) EXCEPT !.ctx = ReleasedCtx(@)]]
    /\ gpc' = [gpc EXCEPT ![g] = "reset"]
    /\ UNCHANGED <<framing, messagePool, currentMessagesInPool, gv, gm,
                   gctx, held, stale, misuse>>

\* messagePool.Put(req)
ReleasePut(g) ==
    /\ gpc[g] = "reset"
    /\ messagePool' = PoolPut(messagePool, gm[g])
    /\ Returned(g)
    /\ UNCHANGED <<framing, currentMessagesInPool, msgs, gctx, held, stale,
                   misuse>>

\* sync.Pool may drop any item it holds at any time (garbage collection)
PoolDrop(m) ==
    /\ messagePool[m] > 0
    /\ messagePool' = [messagePool EXCEPT ![m] = @ - 1]
    /\ UNCHANGED <<framing, currentMessagesInPool, gpc, gv, gm, gctx, held,
                   stale, misuse>>
    /\ msgs' = Scrub(msgs, Live')

(***************************************************************************)
(* A goroutine works on a message it holds                                 *)
(***************************************************************************)
Mutate(g, m, new) ==
    /\ gpc[g] = "idle"
    /\ m \in held[g]
    /\ msgs' = [msgs EXCEPT ![m] = new]
    /\ UNCHANGED <<framing, messagePool, currentMessagesInPool, gpc, gv,
                   gm, gctx, held, stale, misuse>>

DoSetMessageID(g, m) ==
    /\ framing = "udp"
    /\ Mutate(g, m, SetMessageID(msgs[m], SomeMessageID))

DoSetType(g, m) ==
    /\ framing = "udp"
    /\ Mutate(g, m, SetType(msgs[m], Acknowledgement))

DoSetBody(g, m) == Mutate(g, m, SetBody(msgs[m], SomeBody))

DoUnmarshal(g, m, data) == Mutate(g, m, Unmarshal(framing, msgs[m], data))

(***************************************************************************)
(* The wire encoders (packages udp/message and tcp/message), written from  *)
(* the wire formats: the inverse of the decoders above.                    *)
(***************************************************************************)
\* the 4-bit field that stands for the option delta or length v
ExtNibble(v) == IF v < 13 THEN v ELSE IF v < 269 THEN 13 ELSE 14

\* the bytes that extend that field
ExtBytes(v) ==
    IF v < 13 THEN <<>>
    ELSE IF v < 269 THEN <<v - 13>>
    ELSE <<(v - 269) \div 256, (v - 269) % 256>>

\* options in ascending order of id, each as delta, length and value
RECURSIVE EncodeOptions(_, _)
EncodeOptions(opts, prev) ==
    IF opts = <<>> THEN <<>>
    ELSE LET o == Head(opts)
             delta == o.id - prev
             length == Len(o.value)
         IN <<ExtNibble(delta) * 16 + ExtNibble(length)>>
            \o ExtBytes(delta) \o ExtBytes(length) \o o.value
            \o EncodeOptions(Tail(opts), o.id)

\* 0xFF and the payload, nothing for an empty payload
EncodePayload(p) == IF p = <<>> THEN <<>> ELSE <<255>> \o p

\* udp Message.Size / MarshalTo
EncodeUDP(msg) ==
    IF Len(msg.token) > 8 THEN [err |-> ErrInvalidTokenLen, data |-> <<>>]
    ELSE [err |-> NoErr,
          data |-> <<64 + msg.typ * 16 + Len(msg.token), msg.code,
                     msg.messageID \div 256, msg.messageID % 256>>
                   \o msg.token \o EncodeOptions(msg.options, 0)
                   \o EncodePayload(msg.payload)]

\* tcp Message.Size / MarshalTo
EncodeTCP(msg) ==
    LET rest == EncodeOptions(msg.options, 0) \o EncodePayload(msg.payload)
    IN IF Len(msg.token) > 8 THEN [err |-> ErrInvalidTokenLen, data |-> <<>>]
       ELSE [err |-> NoErr,
             data |-> <<ExtNibble(Len(rest)) * 16 + Len(msg.token)>>
                      \o ExtBytes(Len(rest)) \o <<msg.code>> \o msg.token
                      \o rest]

Encode(f, msg) == IF f = "udp" THEN EncodeUDP(msg) ELSE EncodeTCP(msg)

(***************************************************************************)
(* Methods of the pooled message that return a value.  A call that panics  *)
(* has panic TRUE and returns nothing.                                     *)
(***************************************************************************)
\* a MessageID that answers 0 for a message without one
MessageIDDefault(m) ==
    IF m.messageID = <<>>
    THEN [panic |-> FALSE, ret |-> <<0>>]
    ELSE [panic |-> FALSE, ret |-> m.messageID]

\* Message.MessageID
MessageID(m) ==
    IF m.messageID = <<>>
    THEN [panic |-> TRUE, ret |-> <<>>]
    ELSE [panic |-> FALSE, ret |-> m.messageID]

\* an UpsertMessageID that overwrites the message-ID
UpsertMessageIDOverwrites(m, mid) == [m EXCEPT !.messageID = <<mid>>]

\* Message.UpsertMessageID: the message after the call
UpsertMessageID(m, mid) ==
    IF m.messageID # <<>> THEN m ELSE [m EXCEPT !.messageID = <<mid>>]

\* Message.UpsertMessageID: what the call returns
UpsertMessageIDResult(m, mid) ==
    IF m.messageID # <<>> THEN m.messageID ELSE <<mid>>

\* (*pool.Message).SetModified
EmbSetModified(e, b) == [e EXCEPT !.isModified = b]

\* Message.SetModified
SetModified(m, b) ==
    [m EXCEPT !.isModified = b, !.emb = EmbSetModified(@, b)]

\* r.SetToken(token), promoted from the embedded message
SetToken(m, t) == [m EXCEPT !.emb = EmbSetToken(@, t)]

\* (*pool.Message).ReadBody: the bytes of the body, none without a body
EmbReadBody(e) == IF e.body = <<>> THEN <<>> ELSE e.body[1]

\* a Marshal that encodes every message as Confirmable
MarshalTypeZero(m) == Confirmable

\* Type: r.typ in Marshal's udp.Message literal
MarshalType(m) == m.typ

\* Message.Marshal: the literal calls r.MessageID(), which panics before
\* anything is encoded
Marshal(f, m) ==
    IF f = "udp" /\ MessageID(m).panic
    THEN [panic |-> TRUE, err |-> NoErr, data |-> <<>>]
    ELSE LET enc == Encode(f, [typ |-> MarshalType(m),
                               code |-> m.emb.code,
                               messageID |-> IF f = "udp"
                                             THEN MessageID(m).ret[1] ELSE 0,
                               token |-> m.emb.token,
                               options |-> m.emb.options,
                               payload |-> EmbReadBody(m.emb)])
         IN [panic |-> FALSE, err |-> enc.err, data |-> enc.data]

\* Message.Unmarshal: what the call returns
UnmarshalResult(f, data) ==
    LET d == Decode(f, data) IN [n |-> d.n, err |-> d.err]

(***************************************************************************)
(* Calls a goroutine makes on a message it holds.  last is the call the    *)
(* step made; assigned follows the message-ID the callers gave.            *)
(***************************************************************************)
\* more buffers: a message with token, option and payload, and one whose
\* option header is malformed
UDPFull == <<98, 69, 1, 44, 1, 2, 177, 97, 255, 5, 6>>
UDPBadOption == <<64, 1, 0, 1, 241>>
TCPFull == <<82, 69, 1, 2, 177, 97, 255, 5, 6>>
TCPBadOption == <<16, 1, 241>>

CallBufs(f) ==
    Bufs(f) \cup (IF f = "udp" THEN {UDPFull, UDPBadOption}
                  ELSE {TCPFull, TCPBadOption})

\* the message-IDs UpsertMessageID is called with
UpsertIDs == {0, 9}

\* a token longer than a message can carry
LongToken == <<1, 2, 3, 4, 5, 6, 7, 8, 9>>

NoCall ==
    [op |-> "none", m |-> 0, arg |-> <<>>, ret |-> <<>>, err |-> NoErr,
     panic |-> FALSE]

Call(op, m, arg, ret, e, p) ==
    [op |-> op, m |-> m, arg |-> arg, ret |-> ret, err |-> e, panic |-> p]

MInit ==
    /\ last = NoCall
    /\ assigned = [m \in Insts |-> <<>>]

\* a step of AcquireMessage or ReleaseMessage, or of the pool
NoCallStep ==
    /\ last' = NoCall
    /\ UNCHANGED assigned

\* the holder gives the instance m up
GivenUp(m) ==
    /\ last' = NoCall
    /\ assigned' = [assigned EXCEPT ![m] = <<>>]

CallSetMessageID(g, m) ==
    /\ DoSetMessageID(g, m)
    /\ last' = Call("SetMessageID", m, <<SomeMessageID>>, <<>>, NoErr, FALSE)
    /\ assigned' = [assigned EXCEPT ![m] = <<SomeMessageID>>]

CallUpsertMessageID(g, m, mid) ==
    /\ framing = "udp"
    /\ Mutate(g, m, UpsertMessageID(msgs[m], mid))
    /\ last' = Call("UpsertMessageID", m, <<mid>>,
                    UpsertMessageIDResult(msgs[m], mid), NoErr, FALSE)
    /\ assigned' = [assigned EXCEPT ![m] = IF @ = <<>> THEN <<mid>> ELSE @]

CallMessageID(g, m) ==
    /\ framing = "udp"
    /\ Mutate(g, m, msgs[m])
    /\ last' = Call("MessageID", m, <<>>, MessageID(msgs[m]).ret, NoErr,
                    MessageID(msgs[m]).panic)
    /\ UNCHANGED assigned

CallSetType(g, m) ==
    /\ DoSetType(g, m)
    /\ last' = Call("SetType", m, <<Acknowledgement>>, <<>>, NoErr, FALSE)
    /\ UNCHANGED assigned

CallSetModified(g, m, b) ==
    /\ Mutate(g, m, SetModified(msgs[m], b))
    /\ last' = Call("SetModified", m, <<b>>, <<>>, NoErr, FALSE)
    /\ UNCHANGED assigned

CallSetBody(g, m) ==
    /\ DoSetBody(g, m)
    /\ last' = Call("SetBody", m, SomeBody, <<>>, NoErr, FALSE)
    /\ UNCHANGED assigned

CallSetToken(g, m) ==
    /\ Mutate(g, m, SetToken(msgs[m], LongToken))
    /\ last' = Call("SetToken", m, LongToken, <<>>, NoErr, FALSE)
    /\ UNCHANGED assigned

CallUnmarshal(g, m, data) ==
    /\ DoUnmarshal(g, m, data)
    /\ LET r == UnmarshalResult(framing, data)
       IN /\ last' = Call("Unmarshal", m, data, <<r.n>>, r.err, FALSE)
          /\ assigned' =
                 IF framing = "udp" /\ r.err = NoErr
                 THEN [assigned EXCEPT
                           ![m] = <<BigEndian(SubSeq(data, 3, 4))>>]
                 ELSE assigned

CallMarshal(g, m) ==
    /\ Mutate(g, m, msgs[m])
    /\ LET r == Marshal(framing, msgs[m])
       IN last' = Call("Marshal", m, <<>>, r.data, r.err, r.panic)
    /\ UNCHANGED assigned

(***************************************************************************)
(* SetContextValue step by step, called by concurrent goroutines, and      *)
(* Context() read by another                                               *)
(***************************************************************************)
Writers == {"w1", "w2"}

CInit ==
    /\ mutex = ""
    /\ wpc = [w \in Writers |-> "idle"]
    /\ wctx = [w \in Writers |-> 0]
    /\ wkv = [w \in Writers |-> <<>>]
    /\ rd = 0
    /\ setCalls = {}

\* a mutex that excludes nobody
MutexFreeAlways(mu) == TRUE

\* s.mutex.Lock() returns when nobody holds the mutex
MutexFree(mu) == mu = ""

\* s.mutex.Lock()
SCVLock(w, k, v) ==
    /\ wpc[w] = "idle"
    /\ Cardinality({c \in 1..Len(ctxs) : ctxs[c].kind = "value"})
         + Cardinality({x \in Writers : wpc[x] = "locked"}) < MaxSetCalls
    /\ MutexFree(mutex)
    /\ mutex' = w
    /\ wpc' = [wpc EXCEPT ![w] = "locked"]
    /\ wkv' = [wkv EXCEPT ![w] = <<k, v>>]
    /\ UNCHANGED <<svars, wctx, rd, setCalls>>

\* ctx := context.WithValue(s.Context(), key, val)
SCVDerive(w) ==
    /\ wpc[w] = "locked"
    /\ ctxs' = Append(ctxs, ValueCtx(SetContextValueBase, wkv[w][1], wkv[w][2]))
    /\ wctx' = [wctx EXCEPT ![w] = Len(ctxs')]
    /\ wpc' = [wpc EXCEPT ![w] = "derived"]
    /\ UNCHANGED <<kind, closeSocket, onClose, cancelled, sctx, doneFires,
                   connCloses, pc, readCtx, err, err1, tmp, invoked, runRet,
                   closeRet, nHooks, early, termErr, sockErr, readCalls,
                   procCalls, closeCalls, mutex, wkv, rd, setCalls>>

\* s.ctx.Store(&ctx)
SCVStore(w) ==
    /\ wpc[w] = "derived"
    /\ sctx' = wctx[w]
    /\ wpc' = [wpc EXCEPT ![w] = "stored"]
    /\ UNCHANGED <<kind, closeSocket, onClose, ctxs, cancelled, doneFires,
                   connCloses, pc, readCtx, err, err1, tmp, invoked, runRet,
                   closeRet, nHooks, early, termErr, sockErr, readCalls,
                   procCalls, closeCalls, mutex, wctx, wkv, rd, setCalls>>

\* the deferred s.mutex.Unlock(), and the call returns
SCVUnlock(w) ==
    /\ wpc[w] = "stored"
    /\ mutex' = ""
    /\ wpc' = [wpc EXCEPT ![w] = "idle"]
    /\ wctx' = [wctx EXCEPT ![w] = 0]
    /\ setCalls' = setCalls \cup {wkv[w]}
    /\ wkv' = [wkv EXCEPT ![w] = <<>>]
    /\ UNCHANGED <<svars, rd>>

\* a goroutine calls s.Context()
ContextRead ==
    /\ rd' = Context
    /\ UNCHANGED <<svars, mutex, wpc, wctx, wkv, setCalls>>

(***************************************************************************)
(* Session.WriteMessage                                                    *)
(***************************************************************************)
WInit ==
    /\ wrpc = "idle"
    /\ wrm = 0
    /\ wrCtx = NilCtx
    /\ wrData = <<>>
    /\ wrRet = NoErr
    /\ writes = <<>>
    /\ mcancelled = {}

EWRITE == <<"EWRITE">>

\* the context of a message acquired under the session's context
SessionsCtx == "session"

\* the Done channel of the context c a transport write was given is closed
WriteCtxDone(c) ==
    IF c = SessionsCtx THEN IsDone(ctxs, cancelled, Context)
    ELSE c \in mcancelled

\* a WriteMessage that writes under the session's context
WriteCtxOfSession(m) == SessionsCtx

\* req.Context(), the context WriteWithContext is given
WriteCtx(m) == MsgContext(m)

\* what WriteMessage returns for the transport's error e
WriteErrResult(e) ==
    IF kind = "dtls" THEN Wrap("cannot write to connection: ", e) ELSE e

\* WriteMessage(req) is called with a message the goroutine holds
WriteCalled(g, m) ==
    /\ wrpc \in {"idle", "returned"}
    /\ gpc[g] = "idle"
    /\ m \in held[g]
    /\ Len(writes) < MaxWrites
    /\ wrm' = m
    /\ LET r == Marshal(framing, msgs[m])
       IN last' = Call("WriteMessage", m, <<>>, r.data, r.err, r.panic)
    /\ UNCHANGED <<svars, pvars, assigned, cvars, mcancelled>>

\* req.Marshal() panics
WritePanic(g, m) ==
    /\ WriteCalled(g, m)
    /\ Marshal(framing, msgs[m]).panic
    /\ wrpc' = "panicked"
    /\ UNCHANGED <<wrCtx, wrData, wrRet, writes>>

\* if err != nil { return fmt.Errorf("cannot marshal: %w", err) }
WriteMarshalError(g, m) ==
    /\ WriteCalled(g, m)
    /\ ~Marshal(framing, msgs[m]).panic
    /\ Marshal(framing, msgs[m]).err # NoErr
    /\ wrRet' = Wrap("cannot marshal: ", Marshal(framing, msgs[m]).err)
    /\ wrpc' = "returned"
    /\ UNCHANGED <<wrCtx, wrData, writes>>

\* s.connection.WriteWithContext(req.Context(), data) is called and blocks
WriteIssue(g, m) ==
    /\ WriteCalled(g, m)
    /\ ~Marshal(framing, msgs[m]).panic
    /\ Marshal(framing, msgs[m]).err = NoErr
    /\ wrCtx' = WriteCtx(msgs[m])
    /\ wrData' = Marshal(framing, msgs[m]).data
    /\ writes' = Append(writes, [ctx |-> wrCtx', data |-> wrData'])
    /\ wrpc' = "writing"
    /\ UNCHANGED wrRet

\* the transport write returns e, and WriteMessage returns
WriteReturn(e) ==
    /\ wrpc = "writing"
    /\ wrRet' = IF e = NoErr THEN NoErr ELSE WriteErrResult(e)
    /\ wrpc' = "returned"
    /\ last' = NoCall
    /\ UNCHANGED <<svars, pvars, assigned, cvars, wrm, wrCtx, wrData, writes,
                   mcancelled>>

WriteOk == WriteReturn(NoErr)

WriteFail == WriteReturn(EWRITE)

\* the write returns ctx.Err() because the context it was given is done
WriteCancelled ==
    /\ WriteCtxDone(wrCtx)
    /\ WriteReturn(ECANCELED)

\* the owner of a message's context cancels it
MsgCtxCancel(c) ==
    /\ c \notin mcancelled
    /\ mcancelled' = mcancelled \cup {c}
    /\ UNCHANGED <<svars, pvars, mvars, cvars, wrpc, wrm, wrCtx, wrData,
                   wrRet, writes>>

(***************************************************************************)
(* Specifications                                                          *)
(***************************************************************************)
\* the pool before any use
PIdle ==
    /\ PInit
    /\ framing = "udp"

\* a session that is never run
SIdle ==
    /\ SInit
    /\ kind = "udp"
    /\ closeSocket = FALSE

Init == SInit /\ PIdle /\ MInit /\ CInit /\ WInit

Next ==
    \/ Close /\ UNCHANGED outsideSession
    \/ ParentCancel /\ UNCHANGED outsideSession
    \/ AddOnClose /\ UNCHANGED outsideSession
    \/ \E k \in Keys, v \in Vals : SetContextValue(k, v) /\ UNCHANGED outsideSession
    \/ RunStart /\ UNCHANGED outsideSession
    \/ ReadData /\ UNCHANGED outsideSession
    \/ ReadError /\ UNCHANGED outsideSession
    \/ ReadCall /\ UNCHANGED outsideSession
    \/ ReadCancelled /\ UNCHANGED outsideSession
    \/ ProcessOk /\ UNCHANGED outsideSession
    \/ ProcessError /\ UNCHANGED outsideSession
    \/ DeferClose /\ UNCHANGED outsideSession
    \/ PopOnClose /\ UNCHANGED outsideSession
    \/ RunHook /\ UNCHANGED outsideSession
    \/ CloseSocket /\ UNCHANGED outsideSession
    \/ SignalDone /\ UNCHANGED outsideSession
    \/ RunReturn /\ UNCHANGED outsideSession

Spec == Init /\ [][Next]_vars

FairSpec == Spec /\ WF_vars(RunSteps /\ UNCHANGED outsideSession)

PoolInit == PInit /\ SIdle /\ MInit /\ CInit /\ WInit

PoolNext ==
    \/ \E g \in Goroutines, c \in PoolCtxs :
           AcquireNew(g, c, MaxInst) /\ UNCHANGED outsidePool
    \/ \E g \in Goroutines, c \in PoolCtxs, m \in Insts :
           AcquireGet(g, c, m) /\ UNCHANGED outsidePool
    \/ \E g \in Goroutines : AcquireReturn(g) /\ UNCHANGED outsidePool
    \/ \E g \in Goroutines, m \in Insts :
           Release(g, m, TRUE) /\ UNCHANGED outsidePool
    \/ \E g \in Goroutines : ReleaseAgain(g) /\ UNCHANGED outsidePool
    \/ \E g \in Goroutines : ReleaseDiscard(g) /\ UNCHANGED outsidePool
    \/ \E g \in Goroutines : ReleaseAdd(g) /\ UNCHANGED outsidePool
    \/ \E g \in Goroutines : ReleaseReset(g) /\ UNCHANGED outsidePool
    \/ \E g \in Goroutines : ReleasePut(g) /\ UNCHANGED outsidePool
    \/ \E m \in Insts : PoolDrop(m) /\ UNCHANGED outsidePool

PoolSpec == PoolInit /\ [][PoolNext]_vars

\* one goroutine acquires, uses and releases messages
MsgInit == PInit /\ SIdle /\ MInit /\ CInit /\ WInit

MsgNext ==
    \/ \E c \in MsgCtxs :
           AcquireNew("g1", c, MaxUsed) /\ UNCHANGED outsidePool
    \/ \E c \in MsgCtxs, m \in Insts :
           AcquireGet("g1", c, m) /\ UNCHANGED outsidePool
    \/ AcquireReturn("g1") /\ UNCHANGED outsidePool
    \/ \E m \in Insts : Release("g1", m, FALSE) /\ UNCHANGED outsidePool
    \/ ReleaseDiscard("g1") /\ UNCHANGED outsidePool
    \/ ReleaseAdd("g1") /\ UNCHANGED outsidePool
    \/ ReleaseReset("g1") /\ UNCHANGED outsidePool
    \/ ReleasePut("g1") /\ UNCHANGED outsidePool
    \/ \E m \in Insts : PoolDrop(m) /\ UNCHANGED outsidePool
    \/ \E m \in Insts : DoSetMessageID("g1", m) /\ UNCHANGED outsidePool
    \/ \E m \in Insts : DoSetType("g1", m) /\ UNCHANGED outsidePool
    \/ \E m \in Insts : DoSetBody("g1", m) /\ UNCHANGED outsidePool
    \/ \E m \in Insts, data \in Bufs(framing) :
           DoUnmarshal("g1", m, data) /\ UNCHANGED outsidePool

MsgSpec == MsgInit /\ [][MsgNext]_vars

\* one goroutine acquires a message, calls its methods and releases it, one
\* message at a time
CallInit == PInit /\ SIdle /\ MInit /\ CInit /\ WInit

CallNext ==
    \/ \E c \in PoolCtxs :
           AcquireNew("g1", c, 1) /\ NoCallStep /\ UNCHANGED <<svars, cvars, wvars>>
    \/ \E c \in PoolCtxs, m \in Insts :
           AcquireGet("g1", c, m) /\ NoCallStep /\ UNCHANGED <<svars, cvars, wvars>>
    \/ AcquireReturn("g1") /\ NoCallStep /\ UNCHANGED <<svars, cvars, wvars>>
    \/ \E m \in Insts :
           Release("g1", m, FALSE) /\ GivenUp(m) /\ UNCHANGED <<svars, cvars, wvars>>
    \/ ReleaseDiscard("g1") /\ NoCallStep /\ UNCHANGED <<svars, cvars, wvars>>
    \/ ReleaseAdd("g1") /\ NoCallStep /\ UNCHANGED <<svars, cvars, wvars>>
    \/ ReleaseReset("g1") /\ NoCallStep /\ UNCHANGED <<svars, cvars, wvars>>
    \/ ReleasePut("g1") /\ NoCallStep /\ UNCHANGED <<svars, cvars, wvars>>
    \/ \E m \in Insts : PoolDrop(m) /\ NoCallStep /\ UNCHANGED <<svars, cvars, wvars>>
    \/ \E m \in Insts : CallSetMessageID("g1", m) /\ UNCHANGED <<svars, cvars, wvars>>
    \/ \E m \in Insts, mid \in UpsertIDs :
           CallUpsertMessageID("g1", m, mid) /\ UNCHANGED <<svars, cvars, wvars>>
    \/ \E m \in Insts : CallMessageID("g1", m) /\ UNCHANGED <<svars, cvars, wvars>>
    \/ \E m \in Insts : CallSetType("g1", m) /\ UNCHANGED <<svars, cvars, wvars>>
    \/ \E m \in Insts, b \in BOOLEAN :
           CallSetModified("g1", m, b) /\ UNCHANGED <<svars, cvars, wvars>>
    \/ \E m \in Insts : CallSetBody("g1", m) /\ UNCHANGED <<svars, cvars, wvars>>
    \/ \E m \in Insts : CallSetToken("g1", m) /\ UNCHANGED <<svars, cvars, wvars>>
    \/ \E m \in Insts, data \in CallBufs(framing) :
           CallUnmarshal("g1", m, data) /\ UNCHANGED <<svars, cvars, wvars>>
    \/ \E m \in Insts : CallMarshal("g1", m) /\ UNCHANGED <<svars, cvars, wvars>>

CallSpec == CallInit /\ [][CallNext]_vars

(***************************************************************************)
(* Properties of the pool                                                  *)
(***************************************************************************)
Holders(m) == {g \in Goroutines : m \in held[g]}
Acquiring(m) == {g \in Goroutines : gpc[g] = "acquire" /\ gm[g] = m}
Releasing(m) ==
    {g \in Goroutines : gpc[g] \in {"release", "added", "reset"} /\ gm[g] = m}
AllIdle == \A g \in Goroutines : gpc[g] = "idle"
Pooled == {m \in Insts : messagePool[m] > 0}

\* C7: while every release is of an instance its caller holds, the counter
\* stays within 0..maxMessagePool and the pool retains at most maxMessagePool
\* instances, under any interleaving of AcquireMessage and ReleaseMessage.
C7_PoolWithinCap ==
    ~misuse =>
        /\ currentMessagesInPool \in 0..maxMessagePool
        /\ PoolSize <= maxMessagePool

\* C8: while every holder releases an instance at most once, every instance
\* is in one place only: held by one goroutine, or on its way out of the pool
\* to one, or being released by one, or once in the pool; so no instance is
\* held by two acquirers.
C8_SingleOwner ==
    ~misuse =>
        \A m \in Insts :
            Cardinality(Holders(m)) + Cardinality(Acquiring(m))
              + Cardinality(Releasing(m)) + messagePool[m] <= 1

C8_Witness ==
    /\ ~misuse
    /\ \E m \in Insts :
           /\ m \in held["g2"]
           /\ stale["g1"] = m
           /\ gpc["g1"] = "idle"
           /\ msgs[m].ctx # NilCtx

\* C9: after an instance was released twice the pool holds it at most once,
\* it is not held and pooled at once, and once the calls have returned the
\* counter is the number of instances in the pool and within
\* 0..maxMessagePool.
C9_DoubleReleaseKeepsPool ==
    misuse =>
        /\ \A m \in Insts : messagePool[m] <= 1
        /\ \A m \in Insts : Cardinality(Holders(m)) + messagePool[m] <= 1
        /\ AllIdle =>
              /\ currentMessagesInPool = Cardinality(Pooled)
              /\ currentMessagesInPool \in 0..maxMessagePool

\* no code, token, options or body, no message-ID, not modified
InResetState(m) ==
    /\ m.emb.code = CodeEmpty
    /\ m.emb.token = <<>>
    /\ m.emb.options = <<>>
    /\ m.emb.body = <<>>
    /\ m.messageID = <<>>
    /\ ~IsModified(m)

\* C10: the message AcquireMessage(ctx) returns, new or recycled, has
\* Context() = ctx and is in the reset state, and every instance in the pool,
\* or about to be put there, has no context.
C10_AcquiredIsReset ==
    /\ [][\A g \in Goroutines : \A m \in held'[g] \ held[g] :
              /\ MsgContext(msgs'[m]) = gctx'[g]
              /\ gctx'[g] \in MsgCtxs
              /\ InResetState(msgs'[m])]_vars
    /\ [](\A m \in Insts :
              (messagePool[m] > 0 \/ \E g \in Goroutines :
                                        gpc[g] = "reset" /\ gm[g] = m)
                  => MsgContext(msgs[m]) = NilCtx /\ InResetState(msgs[m]))

\* a recycled instance is held again, under another context than the last
C10_Witness ==
    /\ framing = "udp"
    /\ \E m \in held["g1"] :
           /\ msgs[m].typ = NonConfirmable
           /\ msgs[m].messageID = <<>>
           /\ msgs[m].ctx = "ctxB"
    /\ currentMessagesInPool = 0
    /\ AllIdle

\* concurrent SetContextValue calls and Context() reads on a session
CtxInit == SInit /\ closeSocket = FALSE /\ PIdle /\ MInit /\ CInit /\ WInit

CtxNext ==
    \/ \E w \in Writers, k \in Keys, v \in Vals :
           SCVLock(w, k, v) /\ UNCHANGED <<pvars, mvars, wvars>>
    \/ \E w \in Writers : SCVDerive(w) /\ UNCHANGED <<pvars, mvars, wvars>>
    \/ \E w \in Writers : SCVStore(w) /\ UNCHANGED <<pvars, mvars, wvars>>
    \/ \E w \in Writers : SCVUnlock(w) /\ UNCHANGED <<pvars, mvars, wvars>>
    \/ ContextRead /\ UNCHANGED <<pvars, mvars, wvars>>

CtxSpec == CtxInit /\ [][CtxNext]_vars

\* a goroutine builds a message and writes it to the session, while the
\* session and the message's context are cancelled
WriteInit == SInit /\ closeSocket = FALSE /\ PIdle /\ MInit /\ CInit /\ WInit

WriteNext ==
    \/ \E c \in PoolCtxs :
           AcquireNew("g1", c, 1) /\ NoCallStep
             /\ UNCHANGED <<svars, cvars, wvars>>
    \/ \E m \in Insts :
           CallSetMessageID("g1", m) /\ UNCHANGED <<svars, cvars, wvars>>
    \/ \E m \in Insts :
           CallSetBody("g1", m) /\ UNCHANGED <<svars, cvars, wvars>>
    \/ \E m \in Insts :
           CallSetToken("g1", m) /\ UNCHANGED <<svars, cvars, wvars>>
    \/ \E m \in Insts : WritePanic("g1", m)
    \/ \E m \in Insts : WriteMarshalError("g1", m)
    \/ \E m \in Insts : WriteIssue("g1", m)
    \/ WriteOk
    \/ WriteFail
    \/ WriteCancelled
    \/ \E c \in PoolCtxs : MsgCtxCancel(c)
    \/ Close /\ UNCHANGED outsideSession
    \/ ParentCancel /\ UNCHANGED outsideSession

WriteSpec == WriteInit /\ [][WriteNext]_vars

(***************************************************************************)
(* Properties of the message's methods                                     *)
(***************************************************************************)
\* C11: on a datagram-framed message that was given no message-ID since its
\* acquire, MessageID() and Marshal() panic and return nothing, never a
\* default ID; once one was given, MessageID() returns exactly it and
\* Marshal() encodes exactly it.
C11_UnsetMessageIDPanics ==
    (framing = "udp" /\ last.op \in {"MessageID", "Marshal"}) =>
        IF assigned[last.m] = <<>>
        THEN last.panic /\ last.ret = <<>>
        ELSE /\ ~last.panic
             /\ last.op = "MessageID" => last.ret = assigned[last.m]
             /\ (last.op = "Marshal" /\ last.err = NoErr) =>
                    <<BigEndian(SubSeq(last.ret, 3, 4))>> = assigned[last.m]

\* Marshal panics on a recycled message that was given a body but no ID
C11_Witness ==
    /\ framing = "udp"
    /\ last.op = "Marshal"
    /\ last.panic
    /\ msgs[last.m].typ = NonConfirmable
    /\ msgs[last.m].emb.body # <<>>

\* C12: UpsertMessageID(mid) on a message without a message-ID assigns mid
\* and returns it; on a message that was given an ID (by SetMessageID,
\* UpsertMessageID or Unmarshal) it returns that ID and leaves it in place.
C12_UpsertAssignsIfAbsent ==
    [][last'.op = "UpsertMessageID" =>
          IF assigned[last'.m] = <<>>
          THEN /\ last'.ret = last'.arg
               /\ msgs'[last'.m].messageID = last'.arg
          ELSE /\ last'.ret = assigned[last'.m]
               /\ msgs'[last'.m].messageID = assigned[last'.m]]_vars

\* an UpsertMessageID returned the ID an Unmarshal had set
C12_Witness ==
    /\ last.op = "UpsertMessageID"
    /\ last.ret # last.arg
    /\ last.ret = <<42>>
    /\ msgs[last.m].messageID = <<42>>

\* C13: after SetMessageID, SetType, or an UpsertMessageID that assigns an
\* ID, IsModified() is true; and IsModified() is the OR of the message's own
\* flag and the embedded message's.
C13_MutationSetsModified ==
    [][/\ (\/ last'.op \in {"SetMessageID", "SetType"}
           \/ last'.op = "UpsertMessageID" /\ assigned[last'.m] = <<>>)
          => IsModified(msgs'[last'.m])
       /\ \A m \in Insts :
              IsModified(msgs'[m])
                = (msgs'[m].isModified \/ msgs'[m].emb.isModified)]_vars

(***************************************************************************)
(* Properties of the session's context and of WriteMessage                 *)
(***************************************************************************)
RECURSIVE Carries(_, _, _, _)
\* the context c, or one it was derived from, is the value context (k, v)
Carries(cs, c, k, v) ==
    IF c = 0 THEN FALSE
    ELSE IF cs[c].kind = "value" /\ cs[c].key = k /\ cs[c].val = v THEN TRUE
    ELSE Carries(cs, cs[c].parent, k, v)

\* C14: under any interleaving of SetContextValue calls and Context() reads,
\* every read returns a context some call stored whole (the session's first
\* context or a value context derived from it), and the session's context
\* carries the key and value of every SetContextValue call that returned.
C14_NoLostContextValue ==
    /\ rd # 0 =>
          /\ rd \in 1..Len(ctxs)
          /\ IsAncestor(ctxs, SessionCtx, rd)
          /\ rd = SessionCtx \/ ctxs[rd].kind = "value"
          /\ IsAncestor(ctxs, rd, sctx)
    /\ \A kv \in setCalls : Carries(ctxs, sctx, kv[1], kv[2])

\* two calls with different keys returned, and a read saw the context between
C14_Witness ==
    /\ setCalls = {<<"k1", "v1">>, <<"k2", "v1">>}
    /\ \A w \in Writers : wpc[w] = "idle"
    /\ rd # 0
    /\ rd # SessionCtx
    /\ rd # sctx

\* the WriteMessage call a step makes succeeds in marshalling its message
MarshalledOk ==
    /\ last'.op = "WriteMessage"
    /\ wrpc \in {"idle", "returned"}
    /\ ~Marshal(framing, msgs[last'.m]).panic
    /\ Marshal(framing, msgs[last'.m]).err = NoErr

\* C15: a step issues a transport write if and only if it is a WriteMessage
\* call whose Marshal succeeded; the write is of exactly the marshalled
\* bytes under the message's own context; a call whose Marshal failed
\* returns the codec's error, wrapped; and a write returns cancelled only
\* when the message's context is cancelled, whatever the session's is.
C15_WriteIffMarshalled ==
    [][/\ (writes' # writes) <=> MarshalledOk
       /\ MarshalledOk =>
              writes' = Append(writes,
                               [ctx |-> MsgContext(msgs[last'.m]),
                                data |-> Marshal(framing, msgs[last'.m]).data])
       /\ (last'.op = "WriteMessage" /\ last'.err # NoErr) =>
              /\ wrpc' = "returned"
              /\ wrRet' # NoErr
              /\ Cause(wrRet') = last'.err
       /\ (wrpc = "writing" /\ wrpc' = "returned"
             /\ Cause(wrRet') = ECANCELED) =>
              /\ writes[Len(writes)].ctx \in mcancelled
              /\ writes[Len(writes)].ctx \in MsgCtxs]_vars

\* the session was closed while a write was in flight, and the write
\* returned without an error; the message has a body
C15_Witness ==
    /\ wrpc = "returned"
    /\ wrRet = NoErr
    /\ Len(writes) = 1
    /\ writes[1].data = <<64, 0, 0, 7, 255, 9>>
    /\ closeCalls > 0
    /\ IsDone(ctxs, cancelled, Context)
    /\ mcancelled = {}

\* C16: the hooks are invoked in the order AddOnClose registered them: hook
\* h is the h-th one invoked, and once the loop over the popped hooks has
\* ended every hook registered before the pop has been invoked.
C16_HooksInRegistrationOrder ==
    /\ \A i \in 1..Len(invoked) : invoked[i] = i
    /\ (pc \in {"sock", "signal", "ret", "returned"}
          \/ (pc = "hooks" /\ tmp = <<>>))
         => /\ Len(invoked) = Cardinality(early)
            /\ \A h \in early : h <= Len(invoked)

C16_Witness ==
    /\ pc = "returned"
    /\ nHooks = 2
    /\ invoked = <<1, 2>>
    /\ onClose = <<>>

\* C20: a hook registered after popOnClose drained the list is never
\* invoked: it is not among the invoked hooks and stays in the list, once,
\* whatever Close() calls follow.
C20_LateHookNeverInvoked ==
    \A h \in (1..nHooks) \ early :
        /\ Count(invoked, h) = 0
        /\ Count(tmp, h) = 0
        /\ Count(onClose, h) = 1

C20_Witness ==
    /\ pc = "returned"
    /\ early = {1}
    /\ nHooks = 2
    /\ invoked = <<1>>
    /\ onClose = <<2>>
    /\ closeCalls = MaxCloseCalls

(***************************************************************************)
(* Properties of Marshal and Unmarshal                                     *)
(***************************************************************************)
\* the message has a token, options and a body
Full(m) ==
    /\ m.emb.token # <<>>
    /\ m.emb.options # <<>>
    /\ EmbReadBody(m.emb) # <<>>

C18_UnmarshalReplacesBody ==
    (last.op = "Unmarshal" /\ last.err = NoErr) =>
        LET d == Decode(framing, last.arg)
            m == msgs[last.m]
        IN /\ m.emb.token = d.token
           /\ m.emb.options = d.options
           /\ EmbReadBody(m.emb) = d.payload
           /\ d.payload = <<>> => m.emb.body = <<>>

====
